---- MODULE Spec2Model ----
(***************************************************************************)
(* State-machine model of the DNS record cache BetterCache                 *)
(* (src/src/better_cache.rs) over the record model of src/src/dns.rs.      *)
(*                                                                         *)
(* Instants are natural numbers read from the clock `now`.  HashMaps and   *)
(* the two PriorityQueues are functions whose DOMAIN is the key set; Vecs  *)
(* are sequences.  prune() is a loop that samples the clock in every       *)
(* iteration, so it is modelled one loop iteration per step, `pc` being    *)
(* the position inside the call; insert and get are single steps.          *)
(***************************************************************************)
EXTENDS Integers, Sequences, FiniteSets, TLC

\* ---- bounds of the model ------------------------------------------------
MaxTime == 1        \* the clock stops advancing at this instant
MaxTTL == 1         \* TTLs of inserted records range over 0..MaxTTL
MaxDesired == 1     \* desired_size requested at construction: 0..MaxDesired
MaxSize == 3        \* inserts of new tuples stop at this current_size

\* ---- the record model (dns.rs) -------------------------------------------
Domains == {"x.com", "y.com"}
RecordTypes == {"A", "CNAME"}
RecordClasses == {"IN"}
RecordTypeWithData ==
    {[kind |-> "A", data |-> "10.0.0.1"],
     [kind |-> "A", data |-> "10.0.0.2"],
     [kind |-> "CNAME", data |-> "x.com"]}
Wildcard == "*"
QueryTypes == RecordTypes \cup {Wildcard}
QueryClasses == RecordClasses \cup {Wildcard}

\* mutant: every payload is filed as an A record
rtype_AlwaysA(rtype_with_data) == "A"

rtype(rtype_with_data) ==
    CASE rtype_with_data.kind = "A" -> "A"
      [] rtype_with_data.kind = "CNAME" -> "CNAME"

RecordClassMatches(rclass, qclass) == qclass = Wildcard \/ rclass = qclass

\* ---- HashMap, Vec and PriorityQueue operations ---------------------------
EmptyMap == [k \in {} |-> 0]
MapInsert(m, k, v) == [x \in DOMAIN m \cup {k} |-> IF x = k THEN v ELSE m[x]]
MapRemove(m, k) == [x \in DOMAIN m \ {k} |-> m[x]]

\* PriorityQueue<DomainName, Reverse<Instant>>: item -> instant
PqPush(pq, k, p) == MapInsert(pq, k, p)
\* mutant: the priority of a present item is left as it was
PqChangePriority_Ignored(pq, k, p) == pq

PqChangePriority(pq, k, p) == IF k \in DOMAIN pq THEN [pq EXCEPT ![k] = p] ELSE pq
PqRemove(pq, k) == MapRemove(pq, k)
\* the items pop() may return: greatest Reverse(instant) = earliest instant;
\* which of several equal ones comes out is the heap's business
\* mutant: pop() hands out the latest instant
PqPopCandidates_Latest(pq) == {k \in DOMAIN pq : \A j \in DOMAIN pq : pq[k] >= pq[j]}

PqPopCandidates(pq) == {k \in DOMAIN pq : \A j \in DOMAIN pq : pq[k] <= pq[j]}

\* mutant: the Vec is cut off at the i-th element
SwapRemove_Truncate(s, i) == SubSeq(s, 1, i - 1)

\* mutant: the last element is dropped instead of the i-th
SwapRemove_Last(s, i) == [k \in 1..(Len(s) - 1) |-> s[k]]

SwapRemove(s, i) == [k \in 1..(Len(s) - 1) |-> IF k = i THEN s[Len(s)] ELSE s[k]]

\* mutant: the test is reversed, the expired tuples are the ones kept
Retain_Reversed(s, t) == SelectSeq(s, LAMBDA tuple : tuple.expiry <= t)

\* mutant: a tuple expiring exactly at t is kept
Retain_Inclusive(s, t) == SelectSeq(s, LAMBDA tuple : tuple.expiry >= t)

\* tuples.retain(|(_, _, expiry)| expiry > &now)
Retain(s, t) == SelectSeq(s, LAMBDA tuple : tuple.expiry > t)

RECURSIVE SumOver(_, _)
SumOver(f, S) ==
    IF S = {} THEN 0
    ELSE LET k == CHOOSE x \in S : TRUE IN f[k] + SumOver(f, S \ {k})

SetMin(S) == CHOOSE m \in S : \A x \in S : m <= x

\* ---- state ---------------------------------------------------------------
VARIABLES
    entries,          \* DomainName -> CachedDomainRecords
    access_priority,  \* DomainName -> instant of last read
    expiry_priority,  \* DomainName -> instant of next expiry
    current_size,
    desired_size,
    now,              \* the clock behind Instant::now()
    pc,               \* "idle", inside prune: "expire" / "lru", or "panicked"
    pruned,           \* prune's local accumulator
    last_op,          \* the public call made last; an insert that replaced
                      \* a duplicate tuple is recorded as "replace"
    prune_ret,        \* what the last prune() returned (0 if another call came after it)
    call,             \* facts about the prune call in flight or just returned
    zero_ttl          \* domains whose only tuple is an A record that the
                      \* immediately preceding insert stored with TTL 0

vars == <<entries, access_priority, expiry_priority, current_size, desired_size,
          now, pc, pruned, last_op, prune_ret, call, zero_ttl>>


\* the positions (record type, index) of the tuples stored under an entry
Positions(entry) ==
    UNION {{<<rt, i>> : i \in 1..Len(entry.records[rt])} : rt \in DOMAIN entry.records}
TupleAt(entry, pos) == entry.records[pos[1]][pos[2]]
TupleCount(entry) == Cardinality(Positions(entry))

\* the expiries of the tuples stored under an entry
Expiries(entry) == {TupleAt(entry, pos).expiry : pos \in Positions(entry)}

\* some stored tuple has expired by instant t
SomeExpired(t) == \E d \in DOMAIN entries : \E e \in Expiries(entries[d]) : e <= t

\* a tuple with this payload and class is stored under the name
IsDuplicate(name, data, rclass) ==
    /\ name \in DOMAIN entries
    /\ \E pos \in Positions(entries[name]) :
          /\ TupleAt(entries[name], pos).data = data
          /\ TupleAt(entries[name], pos).rclass = rclass

NoCall == [over |-> FALSE, began |-> 0, had_expired |-> FALSE, size |-> 0]

\* ---- construction --------------------------------------------------------
\* mutant: the zero test is missing
IsZeroSize_Never(n) == FALSE

\* `if desired_size == 0`
IsZeroSize(n) == n = 0

\* with_desired_size(n): n = 0 panics and no cache comes to exist
Init ==
    \E n \in 0..MaxDesired :
        /\ desired_size = n
        /\ pc = IF IsZeroSize(n) THEN "panicked" ELSE "idle"
        /\ entries = EmptyMap
        /\ access_priority = EmptyMap
        /\ expiry_priority = EmptyMap
        /\ current_size = 0
        /\ now = 0
        /\ pruned = 0
        /\ last_op = "new"
        /\ prune_ret = 0
        /\ call = NoCall
        /\ zero_ttl = {}

\* ---- the clock -----------------------------------------------------------
Tick ==
    /\ now < MaxTime
    /\ now' = now + 1
    /\ UNCHANGED <<entries, access_priority, expiry_priority, current_size,
                   desired_size, pc, pruned, last_op, prune_ret, call, zero_ttl>>

\* ---- insert --------------------------------------------------------------
\* mutant: the scan never recognises a duplicate
FindDuplicate_None(tuples, tuple) == 0

\* index of the first tuple with the same payload and class, 0 if there is none
FindDuplicate(tuples, tuple) ==
    LET hits == {i \in 1..Len(tuples) :
                    tuples[i].data = tuple.data /\ tuples[i].rclass = tuple.rclass}
    IN IF hits = {} THEN 0 ELSE SetMin(hits)

\* the recomputation after a replaced duplicate: the incoming expiry lowered
\* by the tuples of the record's own type group
NewNextExpiry(expiry, tuples) ==
    SetMin({expiry} \cup {tuples[i].expiry : i \in 1..Len(tuples)})

\* mutant: next_expiry is never recomputed after a replacement
DuplicateWasNext_Never(dup_expiry, next_expiry) == FALSE

\* `if dup_expiry == entry.next_expiry`
DuplicateWasNext(dup_expiry, next_expiry) == dup_expiry = next_expiry

\* mutant: the counts are not corrected for the replaced duplicate
WithoutDuplicate_Forgotten(count, dup) == count

\* a replaced duplicate is taken off a tuple count before the common `+= 1`
WithoutDuplicate(count, dup) == IF dup THEN count - 1 ELSE count

Insert(name, data, rclass, ttl) ==
    /\ pc = "idle"
    /\ LET expiry == now + ttl
           tuple == [data |-> data, rclass |-> rclass, expiry |-> expiry]
           rt == rtype(data)
       IN IF name \in DOMAIN entries
          THEN LET entry == entries[name]
                   has_group == rt \in DOMAIN entry.records
                   old == IF has_group THEN entry.records[rt] ELSE <<>>
                   i == FindDuplicate(old, tuple)
                   dup == i > 0
                   tuples == IF dup THEN Append(SwapRemove(old, i), tuple)
                                    ELSE Append(old, tuple)
                   recompute == dup /\ DuplicateWasNext(old[i].expiry, entry.next_expiry)
                   ne1 == IF recompute THEN NewNextExpiry(expiry, tuples)
                                       ELSE entry.next_expiry
                   ep1 == IF recompute
                          THEN PqChangePriority(expiry_priority, name, ne1)
                          ELSE expiry_priority
                   size1 == WithoutDuplicate(entry.size, dup)
                   cs1 == WithoutDuplicate(current_size, dup)
                   lower == expiry < ne1
                   new_entry == [last_read |-> now,
                                 next_expiry |-> IF lower THEN expiry ELSE ne1,
                                 size |-> size1 + 1,
                                 records |-> MapInsert(entry.records, rt, tuples)]
               IN /\ dup \/ current_size < MaxSize
                  /\ entries' = [entries EXCEPT ![name] = new_entry]
                  /\ access_priority' = PqChangePriority(access_priority, name, now)
                  /\ expiry_priority' = IF lower THEN PqChangePriority(ep1, name, expiry)
                                                 ELSE ep1
                  /\ current_size' = cs1 + 1
          ELSE /\ current_size < MaxSize
               /\ entries' = MapInsert(entries, name,
                                 [last_read |-> now,
                                  next_expiry |-> expiry,
                                  size |-> 1,
                                  records |-> MapInsert(EmptyMap, rt, <<tuple>>)])
               /\ access_priority' = PqPush(access_priority, name, now)
               /\ expiry_priority' = PqPush(expiry_priority, name, expiry)
               /\ current_size' = current_size + 1
    /\ last_op' = IF IsDuplicate(name, data, rclass) THEN "replace" ELSE "insert"
    /\ prune_ret' = 0
    /\ call' = NoCall
    /\ zero_ttl' = IF ttl = 0 /\ rtype(data) = "A" /\ TupleCount(entries'[name]) = 1
                   THEN {name} ELSE {}
    /\ UNCHANGED <<desired_size, now, pc, pruned>>

\* ---- get -----------------------------------------------------------------
\* mutant: the difference is taken without clamping at zero
SaturatingDurationSince_Unclamped(expires, t) == expires - t

SaturatingDurationSince(expires, t) == IF expires > t THEN expires - t ELSE 0

ResourceRecordOf(name, tuple, t) ==
    [name |-> name, rtype |-> tuple.data, rclass |-> tuple.rclass,
     ttl |-> SaturatingDurationSince(tuple.expiry, t)]

RECURSIVE FilterMap(_, _, _, _)
FilterMap(tuples, name, qclass, t) ==
    IF tuples = <<>> THEN <<>>
    ELSE LET rest == FilterMap(Tail(tuples), name, qclass, t)
         IN IF RecordClassMatches(Head(tuples).rclass, qclass)
            THEN <<ResourceRecordOf(name, Head(tuples), t)>> \o rest
            ELSE rest

\* the orders in which HashMap::values() may visit the type groups
Orders(S) == {o \in [1..Cardinality(S) -> S] : \A a \in S : \E k \in DOMAIN o : o[k] = a}

RECURSIVE Flatten(_, _, _, _, _)
Flatten(order, records, name, qclass, t) ==
    IF order = <<>> THEN <<>>
    ELSE FilterMap(records[Head(order)], name, qclass, t)
            \o Flatten(Tail(order), records, name, qclass, t)

\* what get(name, qtype, qclass) returns when the groups are visited in `order`
GetRRs(name, qtype, qclass, order) ==
    IF name \notin DOMAIN entries THEN <<>>
    ELSE LET records == entries[name].records
         IN IF qtype = Wildcard
            THEN Flatten(order, records, name, qclass, now)
            ELSE IF qtype \in DOMAIN records
                 THEN FilterMap(records[qtype], name, qclass, now)
                 ELSE <<>>

GroupOrders(name, qtype) ==
    IF name \in DOMAIN entries /\ qtype = Wildcard
    THEN Orders(DOMAIN entries[name].records) ELSE {<<>>}

\* mutant: recency is refreshed whenever the name has an entry, hit or not
Get_AlwaysTouches(name, qtype, qclass) ==
    /\ pc = "idle"
    /\ IF name \in DOMAIN entries
       THEN /\ entries' = [entries EXCEPT ![name].last_read = now]
            /\ access_priority' = PqChangePriority(access_priority, name, now)
       ELSE UNCHANGED <<entries, access_priority>>
    /\ last_op' = "get"
    /\ prune_ret' = 0
    /\ call' = NoCall
    /\ zero_ttl' = {}
    /\ UNCHANGED <<expiry_priority, current_size, desired_size, now, pc, pruned>>

Get(name, qtype, qclass) ==
    /\ pc = "idle"
    /\ \E order \in GroupOrders(name, qtype) :
         LET rrs == GetRRs(name, qtype, qclass, order)
         IN IF rrs # <<>>
            THEN /\ entries' = [entries EXCEPT ![name].last_read = now]
                 /\ access_priority' = PqChangePriority(access_priority, name, now)
            ELSE UNCHANGED <<entries, access_priority>>
    /\ last_op' = "get"
    /\ prune_ret' = 0
    /\ call' = NoCall
    /\ zero_ttl' = {}
    /\ UNCHANGED <<expiry_priority, current_size, desired_size, now, pc, pruned>>

\* ---- prune ---------------------------------------------------------------
\* mutant: a cache exactly at its desired size is pruned
WithinDesiredSize_Strict == current_size < desired_size

\* the condition of prune's early return
WithinDesiredSize == current_size <= desired_size

\* prune(): the early return, or the entry into remove_expired()
PruneCall ==
    /\ pc = "idle"
    /\ IF WithinDesiredSize
       THEN /\ pc' = "idle"
            /\ call' = [over |-> FALSE, began |-> now, had_expired |-> SomeExpired(now),
                         size |-> current_size]
       ELSE /\ pc' = "expire"
            /\ call' = [over |-> TRUE, began |-> now, had_expired |-> SomeExpired(now),
                         size |-> current_size]
    /\ last_op' = "prune"
    /\ prune_ret' = 0
    /\ pruned' = 0
    /\ UNCHANGED <<entries, access_priority, expiry_priority, current_size,
                   desired_size, now, zero_ttl>>

\* the type groups of an entry after retain(expiry > t)
RetainAll(entry, t) == [rt \in DOMAIN entry.records |-> Retain(entry.records[rt], t)]

\* the number of tuples that retain dropped
Dropped(entry, kept) ==
    SumOver([rt \in DOMAIN kept |-> Len(entry.records[rt]) - Len(kept[rt])], DOMAIN kept)

\* the expiries of the surviving tuples
Surviving(kept) == UNION {{kept[rt][i].expiry : i \in 1..Len(kept[rt])} : rt \in DOMAIN kept}

\* remove_expired_step() on the popped item `name`; n is what it returns
RemoveExpiredStep(name, n) ==
    LET expiry == expiry_priority[name]
    IN IF expiry > now
       THEN /\ n = 0
            /\ UNCHANGED <<entries, access_priority, expiry_priority, current_size>>
       ELSE IF name \in DOMAIN entries
            THEN LET entry == entries[name]
                     kept == RetainAll(entry, now)
                     next_expiry == Surviving(kept)
                 IN /\ n = Dropped(entry, kept)
                    /\ IF next_expiry # {}
                       THEN /\ entries' = [entries EXCEPT
                                              ![name].records = kept,
                                              ![name].size = entry.size - n,
                                              ![name].next_expiry = SetMin(next_expiry)]
                            /\ expiry_priority' =
                                   PqPush(PqRemove(expiry_priority, name), name,
                                          SetMin(next_expiry))
                            /\ UNCHANGED access_priority
                       ELSE /\ entries' = MapRemove(entries, name)
                            /\ access_priority' = PqRemove(access_priority, name)
                            /\ expiry_priority' = PqRemove(expiry_priority, name)
                    /\ current_size' = current_size - n
            ELSE /\ n = 0
                 /\ access_priority' = PqRemove(access_priority, name)
                 /\ expiry_priority' = PqRemove(expiry_priority, name)
                 /\ UNCHANGED <<entries, current_size>>

\* mutant: what the expire pass removed is not added to prune's count
RemoveExpired_Uncounted ==
    /\ pc = "expire"
    /\ \E n \in 0..MaxSize :
         /\ IF DOMAIN expiry_priority = {}
            THEN /\ n = 0
                 /\ UNCHANGED <<entries, access_priority, expiry_priority, current_size>>
            ELSE \E name \in PqPopCandidates(expiry_priority) : RemoveExpiredStep(name, n)
         /\ pruned' = pruned
         /\ pc' = IF n = 0 THEN "lru" ELSE "expire"
    /\ UNCHANGED <<desired_size, now, last_op, prune_ret, call, zero_ttl>>

\* one iteration of the loop of remove_expired(); the loop ends with the
\* first step that returns 0
RemoveExpired ==
    /\ pc = "expire"
    /\ \E n \in 0..MaxSize :
         /\ IF DOMAIN expiry_priority = {}
            THEN /\ n = 0
                 /\ UNCHANGED <<entries, access_priority, expiry_priority, current_size>>
            ELSE \E name \in PqPopCandidates(expiry_priority) : RemoveExpiredStep(name, n)
         /\ pruned' = pruned + n
         /\ pc' = IF n = 0 THEN "lru" ELSE "expire"
    /\ UNCHANGED <<desired_size, now, last_op, prune_ret, call, zero_ttl>>

\* mutant: the evicted name keeps its key in expiry_priority
RemoveLeastRecentlyUsed_KeepsExpiryKey(name, n) ==
    /\ access_priority' = PqRemove(access_priority, name)
    /\ UNCHANGED expiry_priority
    /\ IF name \in DOMAIN entries
       THEN /\ n = entries[name].size
            /\ entries' = MapRemove(entries, name)
            /\ current_size' = current_size - n
       ELSE /\ n = 0
            /\ UNCHANGED <<entries, current_size>>

\* mutant: the evicted entry's size is not taken off current_size
RemoveLeastRecentlyUsed_KeepsSize(name, n) ==
    /\ access_priority' = PqRemove(access_priority, name)
    /\ expiry_priority' = PqRemove(expiry_priority, name)
    /\ IF name \in DOMAIN entries
       THEN /\ n = entries[name].size
            /\ entries' = MapRemove(entries, name)
            /\ UNCHANGED current_size
       ELSE /\ n = 0
            /\ UNCHANGED <<entries, current_size>>

\* remove_least_recently_used() on the popped item `name`; n is what it returns
RemoveLeastRecentlyUsed(name, n) ==
    /\ access_priority' = PqRemove(access_priority, name)
    /\ expiry_priority' = PqRemove(expiry_priority, name)
    /\ IF name \in DOMAIN entries
       THEN /\ n = entries[name].size
            /\ entries' = MapRemove(entries, name)
            /\ current_size' = current_size - n
       ELSE /\ n = 0
            /\ UNCHANGED <<entries, current_size>>

\* mutant: the loop stops one tuple early
OverDesiredSize_OffByOne == current_size > desired_size + 1

\* the condition of `while current_size > desired_size`
OverDesiredSize == current_size > desired_size

\* one iteration of the while loop
EvictLoop ==
    /\ pc = "lru"
    /\ OverDesiredSize
    /\ \E n \in 0..MaxSize :
         /\ IF DOMAIN access_priority = {}
            THEN /\ n = 0
                 /\ UNCHANGED <<entries, access_priority, expiry_priority, current_size>>
            ELSE \E name \in PqPopCandidates(access_priority) :
                     RemoveLeastRecentlyUsed(name, n)
         /\ pruned' = pruned + n
    /\ UNCHANGED <<desired_size, now, pc, last_op, prune_ret, call, zero_ttl>>

\* the loop condition fails: prune() returns `pruned`
PruneReturn ==
    /\ pc = "lru"
    /\ ~OverDesiredSize
    /\ pc' = "idle"
    /\ prune_ret' = pruned
    /\ UNCHANGED <<entries, access_priority, expiry_priority, current_size,
                   desired_size, now, pruned, last_op, call, zero_ttl>>

\* prune() was the last call made and it has returned
Returned == pc = "idle" /\ last_op = "prune"

\* ---- the specification ---------------------------------------------------
DoInsert ==
    \E name \in Domains, data \in RecordTypeWithData, rclass \in RecordClasses,
       ttl \in 0..MaxTTL : Insert(name, data, rclass, ttl)

DoGet == \E name \in Domains, qtype \in QueryTypes, qclass \in QueryClasses :
            Get(name, qtype, qclass)

Next ==
    \/ Tick
    \/ DoInsert
    \/ DoGet
    \/ PruneCall
    \/ RemoveExpired
    \/ EvictLoop
    \/ PruneReturn

Spec == Init /\ [][Next]_vars

\* prune() runs to completion once called: its loops keep being executed
FairSpec ==
    Spec /\ WF_vars(RemoveExpired) /\ WF_vars(EvictLoop) /\ WF_vars(PruneReturn)

\* ---- properties -----------------------------------------------------------
\* the tuples stored under an entry, each with the type group that holds it
Stored(entry) == {<<pos[1], TupleAt(entry, pos)>> : pos \in Positions(entry)}
Matching(entry, data, rclass) ==
    {st \in Stored(entry) : st[2].data = data /\ st[2].rclass = rclass}

\* C1: the key sets of entries, access_priority and expiry_priority are the
\* same set, in every state between calls (and between the loop iterations
\* of prune as well).
KeySetsAgree ==
    /\ DOMAIN entries = DOMAIN access_priority
    /\ DOMAIN entries = DOMAIN expiry_priority
\* a prune that removed tuples has returned and left a domain behind
KeySetsAgreeWitness == Returned /\ prune_ret > 0 /\ DOMAIN entries # {}

\* C2: every entry's size is the number of tuples stored under its domain and
\* current_size is the sum of the sizes.
SizesAgree ==
    /\ \A d \in DOMAIN entries : entries[d].size = TupleCount(entries[d])
    /\ current_size = SumOver([d \in DOMAIN entries |-> entries[d].size], DOMAIN entries)
\* a duplicate has just been replaced in a domain of which an earlier prune
\* expired only a part: a whole type group expired, the entry lived on
SizesAgreeWitness ==
    /\ last_op = "replace"
    /\ \E d \in DOMAIN entries : \E rt \in DOMAIN entries[d].records :
          entries[d].records[rt] = <<>>

\* C3: for every domain present, next_expiry is the minimum expiry of the
\* tuples stored under it, over all of its type groups.
NextExpiryIsMinimum ==
    \A d \in DOMAIN entries :
        /\ Expiries(entries[d]) # {}
        /\ entries[d].next_expiry = SetMin(Expiries(entries[d]))

\* C4: whenever prune() has returned, current_size <= desired_size; and a
\* prune called over the desired size returns a count greater than 0.
PruneRestoresSize ==
    Returned => /\ current_size <= desired_size
                /\ call.over => prune_ret > 0
\* a prune called over the desired size has returned, having removed tuples
PruneRestoresSizeWitness ==
    Returned /\ call.over /\ prune_ret > 0 /\ current_size <= desired_size

\* C5: while the LRU pass of a prune is about to evict a domain, no tuple
\* that had expired when the prune was called is still stored.
ExpiredBeforeRecency ==
    (pc = "lru" /\ current_size > desired_size) => ~SomeExpired(call.began)

PruneWithinSizeIsNoOp ==
    [][(PruneCall /\ current_size <= desired_size) =>
          /\ pc' = "idle"
          /\ prune_ret' = 0
          /\ UNCHANGED <<entries, access_priority, expiry_priority,
                         current_size, desired_size>>]_vars
\* such a prune has returned 0 while expired tuples were, and are, stored
PruneWithinSizeIsNoOpWitness ==
    Returned /\ ~call.over /\ call.had_expired /\ prune_ret = 0 /\ SomeExpired(call.began)

\* what every get for the name returns, whatever the query
GetReturnsEmpty(name) ==
    \A qtype \in QueryTypes, qclass \in QueryClasses :
        \A order \in GroupOrders(name, qtype) : GetRRs(name, qtype, qclass, order) = <<>>

\* C8 as stated: for any positive desired_size, after the insert of an A
\* record with TTL 0 as the only tuple of its domain and then prune(), the
\* domain is gone and a get for it returns nothing.
ZeroTtlGoneAfterPrune ==
    Returned => \A d \in zero_ttl : d \notin DOMAIN entries /\ GetReturnsEmpty(d)

\* C8 amended: the same, for a prune() called while current_size > desired_size.
ZeroTtlGoneAfterPruneOverSize ==
    (Returned /\ call.over) => \A d \in zero_ttl : d \notin DOMAIN entries /\ GetReturnsEmpty(d)
\* such an insert was followed by a prune called over the desired size
ZeroTtlGoneWitness == Returned /\ call.over /\ zero_ttl # {} /\ prune_ret > 0

\* C9: an insert whose name, payload and class are those of a stored tuple
\* leaves the domain's size, its tuple count and current_size as they were,
\* leaves every other tuple of the domain as it was, and the matching tuple
\* expires at now + the new TTL.  (Such an insert is a step from "idle"
\* that records "replace"; only those steps are compared with Insert.)
DedupLaw ==
    [][(pc = "idle" /\ last_op' = "replace") =>
       \A name \in Domains, data \in RecordTypeWithData,
          rclass \in RecordClasses, ttl \in 0..MaxTTL :
          (IsDuplicate(name, data, rclass) /\ Insert(name, data, rclass, ttl)) =>
              /\ entries'[name].size = entries[name].size
              /\ TupleCount(entries'[name]) = TupleCount(entries[name])
              /\ current_size' = current_size
              /\ Stored(entries'[name]) \ Matching(entries'[name], data, rclass)
                    = Stored(entries[name]) \ Matching(entries[name], data, rclass)
              /\ Matching(entries'[name], data, rclass)
                    = {<<rtype(data),
                         [data |-> data, rclass |-> rclass, expiry |-> now + ttl]>>}]_vars
\* a duplicate has just been replaced in a domain that holds other tuples too
DedupLawWitness ==
    /\ pc = "idle" /\ last_op = "replace"
    /\ \E d \in DOMAIN entries :
          /\ entries[d].last_read = now
          /\ TupleCount(entries[d]) >= 2

\* C10: within each (domain, record type) group no two stored tuples have the
\* same payload and class.
Uniqueness ==
    \A d \in DOMAIN entries : \A rt \in DOMAIN entries[d].records :
        \A i, j \in 1..Len(entries[d].records[rt]) :
            (/\ entries[d].records[rt][i].data = entries[d].records[rt][j].data
             /\ entries[d].records[rt][i].rclass = entries[d].records[rt][j].rclass)
            => i = j
\* a duplicate has just been replaced in a group of two tuples
UniquenessWitness ==
    /\ last_op = "replace"
    /\ \E d \in DOMAIN entries : \E rt \in DOMAIN entries[d].records :
          Len(entries[d].records[rt]) = 2

\* the tuples under a name that a query asks for, by position
Asked(name, qtype, qclass) ==
    IF name \notin DOMAIN entries THEN {}
    ELSE {pos \in Positions(entries[name]) :
             /\ qtype = Wildcard \/ rtype(TupleAt(entries[name], pos).data) = qtype
             /\ qclass = Wildcard \/ TupleAt(entries[name], pos).rclass = qclass}

\* C11: get(name, qtype, qclass) returns exactly one record per stored tuple
\* of the name whose type and class the query matches, and no others; a
\* record's TTL is expiry - now if that is positive and 0 otherwise, never
\* negative.
GetReturnsTheMatching ==
    \A name \in Domains, qtype \in QueryTypes, qclass \in QueryClasses :
        \A order \in GroupOrders(name, qtype) :
            LET rrs == GetRRs(name, qtype, qclass, order)
                asked == Asked(name, qtype, qclass)
            IN /\ Len(rrs) = Cardinality(asked)
               /\ {rrs[i] : i \in 1..Len(rrs)} =
                     {[name |-> name,
                       rtype |-> TupleAt(entries[name], pos).data,
                       rclass |-> TupleAt(entries[name], pos).rclass,
                       ttl |-> IF TupleAt(entries[name], pos).expiry > now
                               THEN TupleAt(entries[name], pos).expiry - now
                               ELSE 0] : pos \in asked}
               /\ \A i \in 1..Len(rrs) : rrs[i].ttl >= 0
\* a get was made on a cache holding a domain with two type groups, one of
\* whose tuples had expired and not been pruned
GetReturnsTheMatchingWitness ==
    /\ pc = "idle" /\ last_op = "get"
    /\ \E d \in DOMAIN entries :
          /\ \A rt \in RecordTypes : rt \in DOMAIN entries[d].records
                                      /\ entries[d].records[rt] # <<>>
          /\ \E e \in Expiries(entries[d]) : e < now

\* C12: a get that returns nothing leaves the cache as it was; a get that
\* returns records sets that domain's last_read and access_priority key to
\* now and changes nothing else: no tuple, size, next_expiry, expiry_priority
\* key, current_size, nor anything of another domain.  (A get is a step from
\* "idle" that records "get"; only those steps are compared with Get.)
GetTouchesOnlyRecency ==
    [][(pc = "idle" /\ last_op' = "get") =>
       \A name \in Domains, qtype \in QueryTypes, qclass \in QueryClasses :
          Get(name, qtype, qclass) =>
             /\ UNCHANGED <<expiry_priority, current_size, desired_size>>
             /\ IF Asked(name, qtype, qclass) = {}
                THEN UNCHANGED <<entries, access_priority>>
                ELSE /\ DOMAIN entries' = DOMAIN entries
                     /\ DOMAIN access_priority' = DOMAIN access_priority
                     /\ \A d \in DOMAIN entries \ {name} :
                           /\ entries'[d] = entries[d]
                           /\ access_priority'[d] = access_priority[d]
                     /\ entries'[name].records = entries[name].records
                     /\ entries'[name].size = entries[name].size
                     /\ entries'[name].next_expiry = entries[name].next_expiry
                     /\ entries'[name].last_read = now
                     /\ access_priority'[name] = now]_vars
\* a get has hit a domain all of whose tuples had expired before this instant:
\* its last_read is now, which no insert can have set
GetTouchesOnlyRecencyWitness ==
    /\ pc = "idle" /\ last_op = "get"
    /\ \E d \in DOMAIN entries :
          /\ entries[d].last_read = now
          /\ \A e \in Expiries(entries[d]) : e < now
    /\ \E d \in DOMAIN entries : entries[d].last_read < now

\* C13: what prune() returns is the number of tuples it removed: current_size
\* at the call minus current_size at the return (and the running count is
\* that difference after every loop iteration).
PruneCountsRemovals ==
    /\ Returned => prune_ret = call.size - current_size
    /\ pc \in {"expire", "lru"} => pruned = call.size - current_size
\* a prune called over the desired size with expired tuples stored has
\* returned a count of two or more and left a domain behind
PruneCountsRemovalsWitness ==
    /\ Returned /\ call.over /\ call.had_expired
    /\ prune_ret >= 2
    /\ DOMAIN entries # {}

\* C14: insert admits the record whatever current_size is: nothing that was
\* stored is evicted, a get for the record's name, type and class made right
\* after returns a record with its payload and class, and current_size does
\* not go down, so an insert never brings it back under desired_size.  (An
\* insert is a step from "idle" that records "insert" or "replace".)
InsertAlwaysAdmits ==
    [][(pc = "idle" /\ last_op' \in {"insert", "replace"}) =>
       \A name \in Domains, data \in RecordTypeWithData,
          rclass \in RecordClasses, ttl \in 0..MaxTTL :
          Insert(name, data, rclass, ttl) =>
             /\ DOMAIN entries \subseteq DOMAIN entries'
             /\ \A d \in DOMAIN entries : \A st \in Stored(entries[d]) :
                   \E kept \in Stored(entries'[d]) :
                       /\ kept[1] = st[1]
                       /\ kept[2].data = st[2].data
                       /\ kept[2].rclass = st[2].rclass
             /\ \A order \in (GroupOrders(name, data.kind))' :
                   LET rrs == (GetRRs(name, data.kind, rclass, order))'
                   IN \E i \in 1..Len(rrs) : rrs[i].rtype = data /\ rrs[i].rclass = rclass
             /\ current_size' >= current_size
             /\ current_size >= desired_size => current_size' >= desired_size]_vars
\* an insert has been admitted into a cache that was already at or over its
\* desired size
InsertAlwaysAdmitsWitness ==
    /\ pc = "idle" /\ last_op = "insert"
    /\ current_size > desired_size + 1

\* C15: construction with desired size 0 fails and there is no cache to
\* operate on; every cache that exists has a positive desired_size, and no
\* step ever changes desired_size.
DesiredSizeFixed ==
    /\ [](pc # "panicked" => desired_size > 0)
    /\ [](desired_size = 0 => pc = "panicked")
    /\ [][/\ desired_size' = desired_size
          /\ pc = "panicked" =>
                /\ pc' = "panicked"
                /\ last_op' = "new"
                /\ UNCHANGED <<entries, access_priority, expiry_priority,
                               current_size>>]_vars
\* construction with 0 has panicked, and time has passed without a cache
DesiredSizeFixedWitness ==
    /\ pc = "panicked" /\ desired_size = 0 /\ now > 0
    /\ DOMAIN entries = {} /\ last_op = "new"

\* C16: every prune() call terminates: once inside the call, the cache gets
\* back to "idle"; and the LRU loop never runs with an empty access_priority.
PruneTerminates ==
    /\ [](pc \in {"expire", "lru"} => <>(pc = "idle"))
    /\ []((pc = "lru" /\ current_size > desired_size) => DOMAIN access_priority # {})
\* a prune called three tuples strong with nothing expired, no time passing
\* during it, went through both loops, evicted every domain and has returned
PruneTerminatesWitness ==
    /\ Returned /\ call.over /\ ~call.had_expired /\ call.began = now
    /\ DOMAIN entries = {} /\ call.size = prune_ret
    /\ prune_ret >= 3

\* the tuples of an entry whose expiry is still in the future at instant t
Live(entry, t) == {st \in Stored(entry) : st[2].expiry > t}

\* C17: in every step of a prune, a domain that stays in the cache keeps each
\* of its tuples whose expiry is still in the future, so a tuple removed
\* before its expiry goes only together with its whole domain; the expire
\* pass removes no such tuple at all, and the LRU pass leaves the domains it
\* does not evict exactly as they were.
EvictionGranularity ==
    [][(pc \in {"expire", "lru"}) =>
          /\ \A d \in DOMAIN entries \cap DOMAIN entries' :
                Live(entries[d], now) \subseteq Stored(entries'[d])
          /\ (pc = "expire") =>
                (\A d \in DOMAIN entries :
                    (Live(entries[d], now) # {}) =>
                        (/\ d \in DOMAIN entries'
                         /\ Live(entries[d], now) \subseteq Stored(entries'[d])))
          /\ (pc = "lru") =>
                (\A d \in DOMAIN entries' :
                    d \in DOMAIN entries /\ entries[d] = entries'[d])]_vars
\* a prune called over the desired size has returned and left behind a domain
\* of which it expired a whole type group and kept a tuple not yet expired
EvictionGranularityWitness ==
    /\ Returned /\ call.over /\ call.had_expired /\ prune_ret > 0
    /\ \E d \in DOMAIN entries :
          /\ \E rt \in DOMAIN entries[d].records : entries[d].records[rt] = <<>>
          /\ Live(entries[d], now) # {}

\* C18: for every domain present, its access_priority key is its last_read
\* and its expiry_priority key is its next_expiry; and every insert, whichever
\* path it takes, sets last_read and the access_priority key to its now.
PrioritiesMirrorEntries ==
    /\ [](\A d \in DOMAIN entries :
             /\ d \in DOMAIN access_priority /\ access_priority[d] = entries[d].last_read
             /\ d \in DOMAIN expiry_priority /\ expiry_priority[d] = entries[d].next_expiry)
    /\ [][(pc = "idle" /\ last_op' \in {"insert", "replace"}) =>
          \A name \in Domains, data \in RecordTypeWithData,
             rclass \in RecordClasses, ttl \in 0..MaxTTL :
             Insert(name, data, rclass, ttl) =>
                 entries'[name].last_read = now /\ access_priority'[name] = now]_vars
\* a duplicate was replaced, after time had passed, in a domain whose other
\* tuples are older; both keys follow the entry
PrioritiesMirrorEntriesWitness ==
    /\ pc = "idle" /\ last_op = "replace" /\ now > 0
    /\ \E d \in DOMAIN entries :
          /\ TupleCount(entries[d]) >= 2
          /\ entries[d].last_read = now /\ access_priority[d] = now
          /\ entries[d].next_expiry < now /\ expiry_priority[d] < now

\* C19: every domain's next_expiry is the expiry of a tuple stored under it
\* (so no entry is without tuples and next_expiry is never earlier than the
\* true minimum); hence, in the expire pass, every domain that pop() can
\* yield and that is due holds a tuple the step removes.
NextExpiryIsStored ==
    /\ \A d \in DOMAIN entries : entries[d].next_expiry \in Expiries(entries[d])
    /\ pc = "expire" =>
          \A name \in PqPopCandidates(expiry_priority) :
              expiry_priority[name] <= now =>
                  /\ name \in DOMAIN entries
                  /\ \E e \in Expiries(entries[name]) : e <= now
\* the expire pass has removed tuples and goes on, a domain being left whose
\* next_expiry is later than the earliest expiry stored under it
NextExpiryIsStoredWitness ==
    /\ pc = "expire" /\ pruned > 0
    /\ \E d \in DOMAIN entries : \E e \in Expiries(entries[d]) : e < entries[d].next_expiry

\* C20: insert(record) for domain d leaves every other domain's entry and its
\* keys in both priority orderings as they were, removes from d no tuple but
\* the one with the record's payload and class in the record's type group,
\* and changes current_size by 0 if there was such a tuple and by +1 if not.
InsertFrame ==
    [][(pc = "idle" /\ last_op' \in {"insert", "replace"}) =>
       \A name \in Domains, data \in RecordTypeWithData,
          rclass \in RecordClasses, ttl \in 0..MaxTTL :
          Insert(name, data, rclass, ttl) =>
             /\ DOMAIN entries' = DOMAIN entries \cup {name}
             /\ \A d \in DOMAIN entries \ {name} :
                   /\ entries'[d] = entries[d]
                   /\ d \in DOMAIN access_priority' /\ d \in DOMAIN expiry_priority'
                   /\ access_priority'[d] = access_priority[d]
                   /\ expiry_priority'[d] = expiry_priority[d]
             /\ name \in DOMAIN entries =>
                   \A st \in Stored(entries[name]) :
                       \/ st \in Stored(entries'[name])
                       \/ /\ st[1] = data.kind
                          /\ st[2].data = data
                          /\ st[2].rclass = rclass
             /\ current_size' =
                   IF IsDuplicate(name, data, rclass) THEN current_size
                                                      ELSE current_size + 1]_vars
\* a new tuple was inserted, after time had passed, into a domain that held
\* one already, while another domain with an older last_read is stored
InsertFrameWitness ==
    /\ pc = "idle" /\ last_op = "insert"
    /\ \E d \in DOMAIN entries : \E other \in DOMAIN entries :
          /\ entries[d].last_read = now
          /\ TupleCount(entries[d]) >= 2
          /\ entries[other].last_read < now
====
